---- MODULE Spec2Model ----
(***************************************************************************)
(* The CTR prediction form (src/ctr_predict_app.py) as a state machine.    *)
(*                                                                         *)
(* The script is a Streamlit page: every user interaction that reaches the *)
(* server re-executes it from the first line.  One execution ("run") loads *)
(* the artifact bundle, renders the form and, when the run was triggered   *)
(* by the form's submit button, handles the submission.  Widgets inside    *)
(* st.form do not trigger a run when they are edited.                      *)
(*                                                                         *)
(* Numbers: probabilities are in tenths (7 stands for 0.7), every other    *)
(* number is the integer the form delivers.                                *)
(***************************************************************************)
EXTENDS Integers, Sequences, FiniteSets, TLC

VARIABLES
    artifact,        \* the file ctr_model_complete-2.pkl on disk
    pc,              \* position of the current run in the script
    clicked,         \* whether a click on the submit button started this run
    submitted,       \* return value of st.form_submit_button in this run
    model_artifacts, \* the bundle held in memory by this run
    options,         \* available_cities / _countries / _ad_topics
    fallback_used,   \* TRUE when the except branch of lines 45-48 ran
    widgets,         \* the values the form widgets return in this run
    input_data,      \* the dict assembled by the handler, in insertion order
    defaulted,       \* fields whose label encoding took the except branch
    modelCalls,      \* calls made on the model in this run, with their table
    prediction,      \* <<label>> once bound
    probability,     \* <<p>> once bound
    raised,          \* str(e) of the exception caught at line 142, or ""
    screen,          \* what this run has rendered, in order
    memo             \* history: <<one submission handled by an earlier run>>, or <<>>

vars == <<artifact, pc, clicked, submitted, model_artifacts, options, fallback_used,
          widgets, input_data, defaulted, modelCalls, prediction,
          probability, raised, screen, memo>>

(***************************************************************************)
(* Bounds of the model.                                                    *)
(***************************************************************************)
\* how many of the numeric profiles below a user may enter
NumProfiles == 2

(***************************************************************************)
(* Generic helpers.                                                        *)
(***************************************************************************)
Range(s) == {s[i] : i \in 1..Len(s)}

\* dict.get(key, default) on a dict kept as a set of [key, value] entries
DictGet(d, k, default) ==
    IF \E e \in d : e.key = k
    THEN (CHOOSE e \in d : e.key = k).value
    ELSE default

\* the keys of an insertion-ordered dict kept as a sequence of [name, value]
Keys(data) == {data[i].name : i \in 1..Len(data)}

\* data[name] for a key that is present
Item(data, name) == data[CHOOSE i \in 1..Len(data) : data[i].name = name].value

Entry(n, v) == [name |-> n, value |-> v]

(***************************************************************************)
(* The artifact bundle.                                                    *)
(*                                                                         *)
(* A bundle is the dict the pickle deserializes to.  keys is the set of    *)
(* its keys; the value stored under an absent key is never read.  A dict   *)
(* of the bundle (label_encoders, frequency_maps) gives, for each field,   *)
(* whether the field is a key of it.  An encoder is a LabelEncoder: fitted *)
(* with a sorted vocabulary classes_ of at least one class, or not fitted  *)
(* (no classes_ attribute).  The model is a fitted classifier, opaque to   *)
(* the script: predict and predict_proba are functions of the table, and   *)
(* either may raise.                                                       *)
(***************************************************************************)
Fields == {"city", "country", "ad_topic"}

RequiredKeys == <<"model", "label_encoders", "frequency_maps", "feature_columns">>

AllKeys == Range(RequiredKeys) \cup {"feature_importance"}

Encoder(classes) == [present |-> TRUE, fitted |-> TRUE, classes_ |-> classes]

Unfitted == [present |-> TRUE, fitted |-> FALSE, classes_ |-> <<>>]

NoEncoder == [present |-> FALSE, fitted |-> FALSE, classes_ |-> <<>>]

FrequencyMap(table) == [present |-> TRUE, table |-> table]

NoFrequencyMap == [present |-> FALSE, table |-> {}]

Count(k, n) == [key |-> k, value |-> n]

\* the column list the handler assembles, in a model's training order
AllColumns ==
    <<"DailyTime_Spent_on_Site", "Age", "Area_Income", "Daily_Internet_Usage",
      "Gender_encoded", "City_encoded", "Country_encoded", "Ad_Topic_encoded",
      "City_frequency", "Country_frequency", "hour_of_day", "day_of_week",
      "day_of_month", "month">>

\* a list that lacks assembled columns, reorders others and expects one more
OtherColumns ==
    <<"month", "Age", "is_weekend", "City_encoded", "Gender_encoded",
      "City_frequency">>

FeatureColumnLists == {AllColumns, OtherColumns, <<"Country_encoded">>}

BaseModel ==
    [n_features_in_ |-> Len(AllColumns), bias |-> 0, threshold |-> 5,
     max_score |-> 10000000]

Models ==
    {BaseModel,
     [BaseModel EXCEPT !.bias = 3, !.threshold = 8],
     [BaseModel EXCEPT !.max_score = 10000],
     [BaseModel EXCEPT !.n_features_in_ = Len(OtherColumns), !.bias = 1]}

City1 == Encoder(<<"Boston", "New York">>)

City2 == Encoder(<<"Chicago", "Houston", "New York">>)

Country1 == Encoder(<<"Canada", "United States">>)

AdTopic1 == Encoder(<<"Fashion", "Technology">>)

\* label_encoders dicts with a fitted encoder under each of the three keys
CompleteEncoderDicts ==
    {[city |-> City1, country |-> Country1, ad_topic |-> AdTopic1],
     [city |-> City2, country |-> Country1, ad_topic |-> AdTopic1]}

CityFrequencies1 == FrequencyMap({Count("Boston", 7), Count("New York", 120)})

CityFrequencies ==
    {NoFrequencyMap,
     CityFrequencies1,
     FrequencyMap({Count("Chicago", 40), Count("Los Angeles", 65),
                   Count("New York", 120)})}

CountryFrequencies1 ==
    FrequencyMap({Count("Canada", 80), Count("United States", 300)})

CountryFrequencies ==
    {NoFrequencyMap,
     CountryFrequencies1,
     FrequencyMap({Count("United Kingdom", 25), Count("United States", 300)})}

\* frequency_maps dicts; the tables are built apart from the encoders and
\* need not have the encoders' vocabularies as their keys
FrequencyMapDicts ==
    {fm \in [city : CityFrequencies, country : CountryFrequencies] :
        \/ fm.city.present /\ fm.country.present
        \/ fm.city = NoFrequencyMap /\ fm.country = CountryFrequencies1
        \/ fm.city = CityFrequencies1 /\ fm.country = NoFrequencyMap}

\* feature_importance: a DataFrame, or an object without head (an array)
ImportanceKinds == {"DataFrame", "ndarray"}

BaseEncoders == [city |-> City1, country |-> Country1, ad_topic |-> AdTopic1]

BaseFrequencies == [city |-> CityFrequencies1, country |-> CountryFrequencies1]

BaseBundle ==
    [readable |-> TRUE, keys |-> AllKeys, model |-> BaseModel,
     label_encoders |-> BaseEncoders, frequency_maps |-> BaseFrequencies,
     feature_columns |-> AllColumns, feature_importance |-> "DataFrame"]

\* a file joblib.load cannot deserialize (or that is not there)
Corrupt == [BaseBundle EXCEPT !.readable = FALSE, !.keys = {}]

\* label_encoders dicts that lack a key or hold an encoder never fitted, each
\* with a frequency_maps dict
IncompleteEncoderCases ==
    LET freq(c, k) == [city |-> c, country |-> k]
        city3 == FrequencyMap({Count("Chicago", 40), Count("Los Angeles", 65),
                               Count("New York", 120)})
        country3 == FrequencyMap({Count("United Kingdom", 25),
                                  Count("United States", 300)})
    IN  {<<[city |-> NoEncoder, country |-> Country1, ad_topic |-> AdTopic1],
           BaseFrequencies>>,
         <<[city |-> City1, country |-> NoEncoder, ad_topic |-> AdTopic1],
           freq(city3, country3)>>,
         <<[city |-> City1, country |-> Country1, ad_topic |-> NoEncoder],
           freq(city3, CountryFrequencies1)>>,
         <<[city |-> City2, country |-> Country1, ad_topic |-> Unfitted],
           BaseFrequencies>>,
         <<[city |-> NoEncoder, country |-> NoEncoder, ad_topic |-> NoEncoder],
           freq(CityFrequencies1, NoFrequencyMap)>>}

EncoderCases ==
    (CompleteEncoderDicts \X FrequencyMapDicts) \cup IncompleteEncoderCases

\* the files the model is checked on: the base bundle with its encoders and
\* frequency tables varied, with its model, column list and importance
\* varied, and with each key removed
Artifacts ==
    {Corrupt}
    \cup {[BaseBundle EXCEPT !.keys = AllKeys \ {k}] : k \in AllKeys}
    \cup {[BaseBundle EXCEPT !.label_encoders = c[1], !.frequency_maps = c[2]] :
            c \in EncoderCases}
    \cup {[BaseBundle EXCEPT !.model = m, !.feature_columns = fc,
                             !.feature_importance = fi] :
            m \in Models, fc \in FeatureColumnLists, fi \in ImportanceKinds}

\* model_artifacts before line 8 has run
NotLoaded == Corrupt

(***************************************************************************)
(* The form (lines 22-62).                                                 *)
(***************************************************************************)
\* value=..., min_value=..., max_value=... of the number inputs and sliders
ProfileList ==
    << [age |-> 30, gender |-> "Male", area_income |-> 50000,
        daily_time_spent |-> 50, daily_internet_usage |-> 150,
        hour_of_day |-> 12, day_of_month |-> 15, day_of_week |-> 3,
        month |-> 6],
       [age |-> 18, gender |-> "Female", area_income |-> 0,
        daily_time_spent |-> 0, daily_internet_usage |-> 0,
        hour_of_day |-> 0, day_of_month |-> 1, day_of_week |-> 0,
        month |-> 1],
       [age |-> 100, gender |-> "Female", area_income |-> 200000,
        daily_time_spent |-> 500, daily_internet_usage |-> 500,
        hour_of_day |-> 23, day_of_month |-> 31, day_of_week |-> 6,
        month |-> 12] >>

Profiles ==
    {ProfileList[i] : i \in 1..(IF NumProfiles < Len(ProfileList)
                                THEN NumProfiles ELSE Len(ProfileList))}

FallbackCities == <<"New York", "Los Angeles", "Chicago">>

FallbackCountries == <<"United States", "Canada", "United Kingdom">>

FallbackAdTopics == <<"Technology", "Fashion", "Sports">>

FallbackOptions ==
    [city |-> FallbackCities, country |-> FallbackCountries,
     ad_topic |-> FallbackAdTopics]

\* label_encoders[f].classes_ evaluates without raising
ClassesAvailable(label_encoders, f) ==
    label_encoders[f].present /\ label_encoders[f].fitted

\* mutant: one try/except per field
AvailableOptionsPerField(label_encoders) ==
    [f \in Fields |->
        IF ClassesAvailable(label_encoders, f)
        THEN label_encoders[f].classes_
        ELSE FallbackOptions[f]]

\* the try/except of lines 41-48: the three lists together, or the fallback
AvailableOptions(label_encoders) ==
    IF \A f \in Fields : ClassesAvailable(label_encoders, f)
    THEN [f \in Fields |-> label_encoders[f].classes_]
    ELSE FallbackOptions

FallbackTaken(label_encoders) ==
    ~ \A f \in Fields : ClassesAvailable(label_encoders, f)

\* mutant: the handler's guard holds in every run
FormSubmitButtonAlways(click) == TRUE

\* st.form_submit_button: TRUE exactly in the run its click triggered
FormSubmitButton(click) == click

\* what the widgets can return: a profile and one option of each selectbox
WidgetValues(opts) ==
    {[profile |-> p, city |-> c, country |-> k, ad_topic |-> t] :
        p \in Profiles, c \in Range(opts.city), k \in Range(opts.country),
        t \in Range(opts.ad_topic)}

\* the widgets' values in a run no submit triggered: value=..., first option
DefaultWidgets(opts) ==
    [profile |-> ProfileList[1], city |-> opts.city[1],
     country |-> opts.country[1], ad_topic |-> opts.ad_topic[1]]

NoWidgets ==
    [profile |-> ProfileList[1], city |-> "", country |-> "", ad_topic |-> ""]

NoOptions == [city |-> <<>>, country |-> <<>>, ad_topic |-> <<>>]

(***************************************************************************)
(* The feature encoder (lines 66-108).                                     *)
(***************************************************************************)
\* lines 70-79: the numeric and time fields pass through
NumericFeatures(w) ==
    << Entry("DailyTime_Spent_on_Site", w.profile.daily_time_spent),
       Entry("Age", w.profile.age),
       Entry("Area_Income", w.profile.area_income),
       Entry("Daily_Internet_Usage", w.profile.daily_internet_usage),
       Entry("day_of_month", w.profile.day_of_month),
       Entry("hour_of_day", w.profile.hour_of_day),
       Entry("day_of_week", w.profile.day_of_week),
       Entry("month", w.profile.month) >>

\* mutant: .get(value, 0)
FrequencyEncodeDefaultZero(frequency_maps, f, value) ==
    DictGet(frequency_maps[f].table, value, 0)

\* frequency_maps[f].get(value, 1), for a dict frequency_maps that has key f
FrequencyEncode(frequency_maps, f, value) ==
    DictGet(frequency_maps[f].table, value, 1)

\* mutant: the last class of the vocabulary is taken for an unseen label
TransformSucceedsExceptLast(label_encoders, f, value) ==
    /\ label_encoders[f].present
    /\ label_encoders[f].fitted
    /\ \E i \in 1..(Len(label_encoders[f].classes_) - 1) :
          label_encoders[f].classes_[i] = value

\* LabelEncoder.transform([value]) returns without raising
TransformSucceeds(label_encoders, f, value) ==
    /\ label_encoders[f].present
    /\ label_encoders[f].fitted
    /\ value \in Range(label_encoders[f].classes_)

\* mutant: positions counted from 1
TransformFromOne(encoder, value) ==
    CHOOSE i \in 1..Len(encoder.classes_) : encoder.classes_[i] = value

\* LabelEncoder.transform([value])[0]: the position of value in classes_
Transform(encoder, value) ==
    (CHOOSE i \in 1..Len(encoder.classes_) : encoder.classes_[i] = value) - 1

\* the try/except around each transform (lines 86-99)
LabelEncode(label_encoders, f, value) ==
    IF TransformSucceeds(label_encoders, f, value)
    THEN Transform(label_encoders[f], value)
    ELSE 0

\* line 102
GenderEncode(gender) == IF gender = "Male" THEN 1 ELSE 0

\* lines 82-102, once both frequency tables were found
EncodedFeatures(ma, w) ==
    << Entry("City_frequency", FrequencyEncode(ma.frequency_maps, "city", w.city)),
       Entry("Country_frequency",
             FrequencyEncode(ma.frequency_maps, "country", w.country)),
       Entry("City_encoded", LabelEncode(ma.label_encoders, "city", w.city)),
       Entry("Country_encoded",
             LabelEncode(ma.label_encoders, "country", w.country)),
       Entry("Ad_Topic_encoded",
             LabelEncode(ma.label_encoders, "ad_topic", w.ad_topic)),
       Entry("Gender_encoded", GenderEncode(w.profile.gender)) >>

\* the fields whose transform raised
Defaulted(ma, w) ==
    {f \in Fields : ~ TransformSucceeds(ma.label_encoders, f, w[f])}

\* mutant: selects the expected columns that exist instead of reindexing
ReindexDropsMissing(data, columns) ==
    LET kept == SelectSeq(columns, LAMBDA c : c \in Keys(data))
    IN  [i \in 1..Len(kept) |-> Entry(kept[i], Item(data, kept[i]))]

\* lines 105-108: DataFrame([input_data]).reindex(columns=..., fill_value=0)
Reindex(data, columns) ==
    [i \in 1..Len(columns) |->
        Entry(columns[i],
              IF columns[i] \in Keys(data) THEN Item(data, columns[i]) ELSE 0)]

(***************************************************************************)
(* The model (lines 111-112): a classifier fitted on n_features_in_        *)
(* columns.  Its answer is a function of the table, column order included. *)
(***************************************************************************)
RECURSIVE WeightedSum(_, _)
WeightedSum(df, i) ==
    IF i = 0 THEN 0 ELSE i * df[i].value + WeightedSum(df, i - 1)

Score(df) == WeightedSum(df, Len(df))

\* predict and predict_proba validate the table the same way
ModelError(model, df) ==
    IF Len(df) # model.n_features_in_ THEN "X has a different number of features"
    ELSE IF Score(df) > model.max_score THEN "Input X is out of range"
    ELSE ""

\* predict_proba(df)[0][1], in tenths
PredictProba(model, df) == (model.bias + Score(df)) % 11

\* predict(df)[0]
Predict(model, df) == IF PredictProba(model, df) > model.threshold THEN 1 ELSE 0

(***************************************************************************)
(* Presentation (lines 115-144).                                           *)
(***************************************************************************)
Widget(kind, text, arg) == [widget |-> kind, text |-> text, arg |-> arg]

\* f"{probability:.1%}"
PercentText(p) ==
    <<"0.0%", "10.0%", "20.0%", "30.0%", "40.0%", "50.0%", "60.0%", "70.0%",
      "80.0%", "90.0%", "100.0%">>[p + 1]

LoadSuccess == Widget("success", "Model loaded successfully!", "")

LoadError ==
    Widget("error", "Could not load model artifacts. Please check the file path.", "")

FormWidget == Widget("form", "prediction_form", "")

Excellent == Widget("success", "Excellent targeting!", "")

Moderate == Widget("warning", "Moderate targeting.", "")

Poor == Widget("error", "Poor targeting.", "")

RetryHint == Widget("info", "Please check your input values and try again.", "")

PredictionError(e) == Widget("error", "Error making prediction: ", e)

\* lines 120-123
Banner(label) ==
    IF label = 1
    THEN Widget("success", "WILL CLICK", "")
    ELSE Widget("warning", "WON'T CLICK", "")

\* 0.7 and 0.5 of lines 130 and 132, in tenths
ExcellentThreshold == 7

ModerateThreshold == 5

\* mutant: >= for > in both comparisons
InsightInclusive(p) ==
    IF p >= ExcellentThreshold THEN Excellent
    ELSE IF p >= ModerateThreshold THEN Moderate
    ELSE Poor

\* lines 130-135
Insight(p) ==
    IF p > ExcellentThreshold THEN Excellent
    ELSE IF p > ModerateThreshold THEN Moderate
    ELSE Poor

\* lines 115-135
ResultWidgets(label, p) ==
    << Widget("success", "Prediction completed!", ""),
       Banner(label),
       Widget("metric", "Click Probability", PercentText(p)),
       Widget("subheader", "Insights", ""),
       Insight(p) >>

\* mutant: no retry hint after the error message
ErrorWidgetsNoHint(e) == << PredictionError(e) >>

\* lines 142-144
ErrorWidgets(e) == << PredictionError(e), RetryHint >>

\* mutant: frequency_maps['city'].setdefault(city, 1) for .get(city, 1)
BundleAfterHandlingSetdefault(ma, w) ==
    IF ma.frequency_maps.city.present
       /\ \A e \in ma.frequency_maps.city.table : e.key # w.city
    THEN [ma EXCEPT !.frequency_maps.city.table = @ \cup {Count(w.city, 1)}]
    ELSE ma

\* the handler's effect on the bundle in memory: get and transform only read
BundleAfterHandling(ma, w) == ma

\* what handling one submission produces
Outcome(data, dflt, calls, label, p, shown, e) ==
    [input_data |-> data, defaulted |-> dflt, modelCalls |-> calls,
     prediction |-> label, probability |-> p, raised |-> e,
     shown |-> IF e = "" THEN shown ELSE shown \o ErrorWidgets(e)]

Call(method, df) == [method |-> method, table |-> df]

\* the body of "if submitted:" (lines 65-144) on bundle ma and widget values w
Handler(ma, w) ==
    LET numeric == NumericFeatures(w)
        encoded == EncodedFeatures(ma, w)
        data == numeric \o encoded
        df == Reindex(data, ma.feature_columns)
        label == Predict(ma.model, df)
        p == PredictProba(ma.model, df)
        calls == << Call("predict", df), Call("predict_proba", df) >>
        expander == Widget("expander", "Feature Importance", "")
        table == Widget("dataframe", "feature_importance.head(10)", "")
    IN  IF ~ ma.frequency_maps.city.present
        THEN Outcome(numeric, {}, <<>>, <<>>, <<>>, <<>>, "'city'")
        ELSE IF ~ ma.frequency_maps.country.present
        THEN Outcome(numeric \o SubSeq(encoded, 1, 1), {}, <<>>, <<>>, <<>>,
                     <<>>, "'country'")
        ELSE IF ModelError(ma.model, df) # ""
        THEN Outcome(data, Defaulted(ma, w), SubSeq(calls, 1, 1), <<>>, <<>>,
                     <<>>, ModelError(ma.model, df))
        ELSE IF "feature_importance" \notin ma.keys
        THEN Outcome(data, Defaulted(ma, w), calls, <<label>>, <<p>>,
                     ResultWidgets(label, p) \o <<expander>>, "")
        ELSE IF ma.feature_importance = "DataFrame"
        THEN Outcome(data, Defaulted(ma, w), calls, <<label>>, <<p>>,
                     ResultWidgets(label, p) \o <<expander, table>>, "")
        ELSE Outcome(data, Defaulted(ma, w), calls, <<label>>, <<p>>,
                     ResultWidgets(label, p) \o <<expander>>,
                     "object has no attribute 'head'")

(***************************************************************************)
(* The artifact loader (lines 6-16).                                       *)
(***************************************************************************)
\* joblib.load returns and the four subscripts of lines 9-12 find their key
LoadSucceeds(a) == a.readable /\ Range(RequiredKeys) \subseteq a.keys

\* mutant: the except branch does not call st.stop()
AfterLoadNoStop(ok) == "loaded"

\* after the try/except: the script goes on, or st.stop() ends the run
AfterLoad(ok) == IF ok THEN "loaded" ELSE "stopped"

(***************************************************************************)
(* The state machine.                                                      *)
(***************************************************************************)
Init ==
    /\ artifact \in Artifacts
    /\ pc = "start"
    /\ clicked = FALSE
    /\ submitted = FALSE
    /\ model_artifacts = NotLoaded
    /\ options = NoOptions
    /\ fallback_used = FALSE
    /\ widgets = NoWidgets
    /\ input_data = <<>>
    /\ defaulted = {}
    /\ modelCalls = <<>>
    /\ prediction = <<>>
    /\ probability = <<>>
    /\ raised = ""
    /\ screen = <<>>
    /\ memo = <<>>

\* lines 6-16
LoadArtifacts ==
    /\ pc = "start"
    /\ model_artifacts' = IF artifact.readable THEN artifact ELSE NotLoaded
    /\ screen' = IF LoadSucceeds(artifact) THEN <<LoadSuccess>> ELSE <<LoadError>>
    /\ pc' = AfterLoad(LoadSucceeds(artifact))
    /\ UNCHANGED <<artifact, clicked, submitted, options, fallback_used,
                   widgets, input_data, defaulted, modelCalls, prediction,
                   probability, raised, memo>>

\* lines 18-62: the title and the form; the widgets return the values the
\* user had entered when the submit button was clicked, or their defaults
RenderForm ==
    /\ pc = "loaded"
    /\ options' = AvailableOptions(model_artifacts.label_encoders)
    /\ fallback_used' = FallbackTaken(model_artifacts.label_encoders)
    /\ widgets' \in IF clicked THEN WidgetValues(options')
                               ELSE {DefaultWidgets(options')}
    /\ screen' = screen \o <<Widget("title", "Ad Click-Through Rate (CTR) Prediction", ""),
                             FormWidget>>
    /\ pc' = "form"
    /\ UNCHANGED <<artifact, clicked, submitted, model_artifacts, input_data,
                   defaulted, modelCalls, prediction, probability, raised,
                   memo>>

\* lines 64-144 in a run whose submit button returned True
HandleSubmission ==
    /\ pc = "form"
    /\ submitted
    /\ LET out == Handler(model_artifacts, widgets)
       IN  /\ input_data' = out.input_data
           /\ defaulted' = out.defaulted
           /\ modelCalls' = out.modelCalls
           /\ prediction' = out.prediction
           /\ probability' = out.probability
           /\ raised' = out.raised
           /\ screen' = screen \o out.shown
    /\ model_artifacts' = BundleAfterHandling(model_artifacts, widgets)
    /\ pc' = "end"
    /\ UNCHANGED <<artifact, clicked, submitted, options, fallback_used, widgets,
                   memo>>

\* line 64 in a run whose submit button returned False: the script ends
SkipSubmission ==
    /\ pc = "form"
    /\ ~ submitted
    /\ pc' = "end"
    /\ UNCHANGED <<artifact, clicked, submitted, model_artifacts, options,
                   fallback_used, widgets, input_data, defaulted, modelCalls,
                   prediction, probability, raised, screen, memo>>

\* the submission the run now ending has handled, as the history keeps it
Remembered ==
    [widgets |-> widgets, input_data |-> input_data, modelCalls |-> modelCalls,
     prediction |-> prediction, probability |-> probability,
     raised |-> raised, screen |-> screen]

\* the next run of the script: the user clicked "Predict CTR" on the form
\* (click), or opened or reloaded the page; the run starts with no globals.
\* memo is a history variable: it may keep the submission just handled.
NewRun(click) ==
    /\ pc \in {"end", "stopped"}
    /\ click => pc = "end"
    /\ clicked' = click
    /\ submitted' = FormSubmitButton(click)
    /\ pc' = "start"
    /\ model_artifacts' = NotLoaded
    /\ options' = NoOptions
    /\ fallback_used' = FALSE
    /\ widgets' = NoWidgets
    /\ input_data' = <<>>
    /\ defaulted' = {}
    /\ modelCalls' = <<>>
    /\ prediction' = <<>>
    /\ probability' = <<>>
    /\ raised' = ""
    /\ screen' = <<>>
    /\ memo' \in IF memo = <<>> /\ pc = "end" /\ submitted
                THEN {<<>>, <<Remembered>>}
                ELSE {memo}
    /\ UNCHANGED artifact

Submit == NewRun(TRUE)

Reload == NewRun(FALSE)

Next ==
    \/ LoadArtifacts
    \/ RenderForm
    \/ HandleSubmission
    \/ SkipSubmission
    \/ Submit
    \/ Reload

Spec == Init /\ [][Next]_vars

(***************************************************************************)
(* Properties.                                                             *)
(***************************************************************************)
\* this run has executed the body of "if submitted:"
Handled == pc = "end" /\ submitted

\* the handler got past the encoder: input_data holds every assembled field
Assembled == Handled /\ Len(input_data) = Len(AllColumns)

\* the vocabulary of field f's encoder; none when there is no fitted encoder
Vocabulary(f) ==
    IF model_artifacts.label_encoders[f].present
       /\ model_artifacts.label_encoders[f].fitted
    THEN Range(model_artifacts.label_encoders[f].classes_)
    ELSE {}

\* the keys of field f's frequency table
FrequencyKeys(f) == {e.key : e \in model_artifacts.frequency_maps[f].table}

EncodedColumn(f) ==
    CASE f = "city" -> "City_encoded"
      [] f = "country" -> "Country_encoded"
      [] f = "ad_topic" -> "Ad_Topic_encoded"

FrequencyColumn(f) ==
    CASE f = "city" -> "City_frequency"
      [] f = "country" -> "Country_frequency"

\* C1: every table passed to the model has exactly the columns of
\* feature_columns, in that order; a column the encoder assembled keeps its
\* assembled value, a column it did not assemble is 0, and no assembled field
\* outside feature_columns is in the table.
C1_ReindexedTable ==
    \A k \in 1..Len(modelCalls) :
        LET t == modelCalls[k].table
            fc == model_artifacts.feature_columns
        IN  /\ Len(t) = Len(fc)
            /\ \A i \in 1..Len(fc) :
                /\ t[i].name = fc[i]
                /\ \A j \in 1..Len(input_data) :
                      input_data[j].name = fc[i] => t[i].value = input_data[j].value
                /\ (\A j \in 1..Len(input_data) : input_data[j].name # fc[i])
                      => t[i].value = 0

\* C1 witness: the model was called with a table whose column list lacks
\* assembled fields and holds a column the encoder never assembles.
C1_Witness ==
    /\ Len(modelCalls) = 2
    /\ model_artifacts.feature_columns = OtherColumns
    /\ modelCalls[1].table[3] = Entry("is_weekend", 0)
    /\ modelCalls[1].table[2] = Entry("Age", 18)

\* C2 as claimed: a city (country) absent from the encoder's vocabulary gets
\* encoded index 0 and frequency 1, and the encoder does not raise on it.
C2_Original ==
    /\ Handled =>
          (raised \in {"'city'", "'country'"}) =
             ~ (model_artifacts.frequency_maps.city.present
                /\ model_artifacts.frequency_maps.country.present)
    /\ Handled /\ raised \notin {"'city'", "'country'"} => Assembled
    /\ Assembled =>
          \A f \in {"city", "country"} :
              widgets[f] \notin Vocabulary(f) =>
                  /\ Item(input_data, EncodedColumn(f)) = 0
                  /\ Item(input_data, FrequencyColumn(f)) = 1

\* C2 amended: a city (country) absent from the encoder's vocabulary gets
\* encoded index 0; a city (country) absent from the frequency table gets
\* frequency 1, whatever the encoder's vocabulary; the encoder raises on no
\* value: it fails only when frequency_maps lacks the field's table.
C2_UnknownDefaults ==
    /\ Handled =>
          (raised \in {"'city'", "'country'"}) =
             ~ (model_artifacts.frequency_maps.city.present
                /\ model_artifacts.frequency_maps.country.present)
    /\ Handled /\ raised \notin {"'city'", "'country'"} => Assembled
    /\ Assembled =>
          \A f \in {"city", "country"} :
              /\ widgets[f] \notin Vocabulary(f) =>
                    Item(input_data, EncodedColumn(f)) = 0
              /\ widgets[f] \notin FrequencyKeys(f) =>
                    Item(input_data, FrequencyColumn(f)) = 1

\* C2 witness: a handled submission whose city is in neither the encoder's
\* vocabulary nor the frequency table, and that ended in a result.
C2_Witness ==
    /\ Assembled
    /\ raised = ""
    /\ widgets.city \notin Vocabulary("city")
    /\ widgets.city \notin FrequencyKeys("city")
    /\ Item(input_data, "City_encoded") = 0
    /\ Item(input_data, "City_frequency") = 1

\* C3: a submitted city, country or ad topic that is in its encoder's
\* vocabulary is encoded as its position in that vocabulary (from 0), by the
\* transform and not by the default branch.
C3_KnownValueIndex ==
    Assembled =>
        \A f \in Fields :
            widgets[f] \in Vocabulary(f) =>
                /\ f \notin defaulted
                /\ \E i \in 1..Len(model_artifacts.label_encoders[f].classes_) :
                      /\ model_artifacts.label_encoders[f].classes_[i] = widgets[f]
                      /\ Item(input_data, EncodedColumn(f)) = i - 1

\* C3 witness: the fallback lists were offered and the submitted city is a
\* known one with a position other than 0.
C3_Witness ==
    /\ Assembled
    /\ fallback_used
    /\ widgets.city = "New York"
    /\ Item(input_data, "City_encoded") = 2

\* the load of the file on disk fails: it does not deserialize, or lacks one
\* of the four keys the loader reads
LoadFails ==
    ~ (artifact.readable
       /\ {"model", "label_encoders", "frequency_maps", "feature_columns"}
             \subseteq artifact.keys)

\* C4: a run whose load failed shows the load error and nothing else and is
\* halted: no form, no feature record, no model call.  A run whose bundle has
\* the four keys, with or without feature_importance, is not halted.
C4_LoadFailureHalts ==
    pc # "start" =>
        IF LoadFails
        THEN /\ pc = "stopped"
             /\ screen = <<LoadError>>
             /\ input_data = <<>>
             /\ modelCalls = <<>>
             /\ prediction = <<>>
        ELSE /\ pc # "stopped"
             /\ screen[1] = LoadSuccess
             /\ LoadError \notin Range(screen)

\* C4 witness: a file that deserializes but lacks a required key halted the run.
C4_Witness ==
    /\ pc = "stopped"
    /\ artifact.readable
    /\ "frequency_maps" \notin artifact.keys

\* C5: a submission whose handling raised ends with the error message and the
\* retry hint as the last two things rendered; the run is not halted, the
\* bundle is still the loaded one, and the form can be submitted again.  A
\* submission that raised nothing shows neither.
C5_ExceptionCaught ==
    Handled =>
        IF raised # ""
        THEN /\ Len(screen) >= 2
             /\ screen[Len(screen) - 1] = PredictionError(raised)
             /\ screen[Len(screen)] = RetryHint
             /\ model_artifacts = artifact
             /\ LoadError \notin Range(screen)
             /\ ENABLED Submit
        ELSE /\ RetryHint \notin Range(screen)
             /\ \A i \in 1..Len(screen) : screen[i].text # "Error making prediction: "

\* C5 witness: after a submission that ended in the error outcome, a later
\* submission of the same session ended in a result.
C5_Witness ==
    /\ memo # <<>>
    /\ memo[1].raised # ""
    /\ Handled
    /\ raised = ""
    /\ Len(modelCalls) = 2

\* C6: a feature record is built and the model is called only in a run that a
\* click on the submit button started, after that run loaded the bundle and
\* rendered the form.
C6_OnlyOnSubmit ==
    (input_data # <<>> \/ modelCalls # <<>> \/ prediction # <<>>
        \/ probability # <<>>)
    => /\ clicked
       /\ screen[1] = LoadSuccess
       /\ model_artifacts = artifact
       /\ ~ LoadFails
       /\ FormWidget \in Range(screen)

\* C6 witness: a run started by a click called predict and predict_proba.
C6_Witness ==
    /\ clicked
    /\ Len(modelCalls) = 2
    /\ modelCalls[1].method = "predict"
    /\ modelCalls[2].method = "predict_proba"

\* C7: a submission that ended in a result shows exactly one insight message:
\* excellent iff p > 0.7, moderate iff 0.5 < p <= 0.7, poor iff p <= 0.5.
C7_InsightTiers ==
    Handled /\ raised = "" =>
        LET p == probability[1]
        IN  /\ Cardinality({i \in 1..Len(screen) :
                              screen[i] \in {Excellent, Moderate, Poor}}) = 1
            /\ (Excellent \in Range(screen)) = (p > 7)
            /\ (Moderate \in Range(screen)) = (p > 5 /\ p <= 7)
            /\ (Poor \in Range(screen)) = (p <= 5)

\* C7 witness: probability exactly 0.7 was shown as moderate.
C7_Witness ==
    /\ Handled
    /\ raised = ""
    /\ probability = <<7>>
    /\ Moderate \in Range(screen)

\* C8 as claimed: each field's options are its own encoder's vocabulary
\* whenever that vocabulary is available, and its fallback list only when
\* that vocabulary is unavailable.
C8_Original ==
    pc \in {"form", "end"} =>
        /\ screen[1] = LoadSuccess
        /\ FormWidget \in Range(screen)
        /\ \A f \in Fields :
              IF ClassesAvailable(model_artifacts.label_encoders, f)
              THEN options[f] = model_artifacts.label_encoders[f].classes_
              ELSE options[f] = FallbackOptions[f]

\* C8 amended: the options of the three fields are the three encoder
\* vocabularies when all three are available, and are the three fallback
\* lists when any one of them is unavailable; either way the form is
\* rendered, with no error and without halting the run.
C8_OptionsAllOrNothing ==
    /\ pc = "loaded" => ENABLED RenderForm
    /\ pc \in {"form", "end"} =>
        /\ screen[1] = LoadSuccess
        /\ FormWidget \in Range(screen)
        /\ IF \A f \in Fields :
                 ClassesAvailable(model_artifacts.label_encoders, f)
           THEN \A f \in Fields :
                   options[f] = model_artifacts.label_encoders[f].classes_
           ELSE \A f \in Fields : options[f] = FallbackOptions[f]

\* C8 witness: the city vocabulary is available, the ad topic encoder is
\* missing, and the city options are the fallback list.
C8_Witness ==
    /\ pc = "form"
    /\ ClassesAvailable(model_artifacts.label_encoders, "city")
    /\ ~ ClassesAvailable(model_artifacts.label_encoders, "ad_topic")
    /\ options.city = FallbackCities

====
